---- MODULE Spec2Model ----
(***************************************************************************)
(* Model of vector.py (Vector Learning App): a tkinter window with four    *)
(* lesson panels.  Each panel reads its entry fields into vectors, does    *)
(* one line of vector arithmetic and hands the result to PlotManager and   *)
(* to an info panel.                                                       *)
(*                                                                         *)
(* Text is a sequence of one-character strings.  A Python float is         *)
(* modelled as a decimal floating-point number [m |-> mantissa, e |->      *)
(* exponent] (value m * 10^e) whose mantissa keeps Precision significant   *)
(* digits; arithmetic rounds to nearest, ties to even, as IEEE-754 does in *)
(* binary.                                                                 *)
(***************************************************************************)
EXTENDS Integers, Sequences, FiniteSets, TLC

\* ---------------------------------------------------------------- bounds
Precision == 3      \* significant decimal digits kept by a float
MaxLen == 3         \* total number of characters typed into one VectorInput
MaxEdits == 2       \* number of field edits in one run of the application
MaxComputes == 2    \* number of computations whose figures pyplot is let hold

\* ------------------------------------------------- decimal floating point
RECURSIVE Pow10(_)
Pow10(n) == IF n <= 0 THEN 1 ELSE 10 * Pow10(n - 1)

Abs(x) == IF x < 0 THEN -x ELSE x

RECURSIVE NumDigits(_)
NumDigits(n) == IF n < 10 THEN 1 ELSE 1 + NumDigits(n \div 10)

RECURSIVE Canon(_, _)
\* canonical form: no trailing zero in the mantissa, zero is 0 * 10^0
Canon(m, e) ==
    IF m = 0 THEN [m |-> 0, e |-> 0]
    ELSE IF m % 10 = 0 THEN Canon(m \div 10, e + 1)
    ELSE [m |-> m, e |-> e]

\* round (m + t) * 10^e to Precision significant digits, ties to even, where
\* t is 0 or (when sticky) a positive amount below one unit of |m|
RoundS(m, e, sticky) ==
    LET a == Abs(m)
        d == NumDigits(a) - Precision
    IN  IF d <= 0 THEN Canon(m, e)
        ELSE LET p    == Pow10(d)
                 q    == a \div p
                 r    == a % p
                 half == p \div 2
                 up   == r > half \/ (r = half /\ (sticky \/ q % 2 = 1))
                 q2   == IF up THEN q + 1 ELSE q
             IN  Canon((IF m < 0 THEN -1 ELSE 1) * q2, e + d)

RoundF(m, e) == RoundS(m, e, FALSE)

Zero == [m |-> 0, e |-> 0]
IsFloat(x) == DOMAIN x = {"m", "e"}

\* 10^(Order(x)-1) <= |x| < 10^Order(x) for x # 0
Order(x) == NumDigits(Abs(x.m)) + x.e

FNeg(x) == [m |-> -x.m, e |-> x.e]
FAbs(x) == [m |-> Abs(x.m), e |-> x.e]

FAdd(a, b) ==
    IF a.m = 0 THEN b
    ELSE IF b.m = 0 THEN a
    ELSE IF Order(a) - Order(b) >= Precision + 2 THEN a
    ELSE IF Order(b) - Order(a) >= Precision + 2 THEN b
    ELSE LET emin == IF a.e < b.e THEN a.e ELSE b.e
         IN  RoundF(a.m * Pow10(a.e - emin) + b.m * Pow10(b.e - emin), emin)

FSub(a, b) == FAdd(a, FNeg(b))

FMul(a, b) == RoundF(a.m * b.m, a.e + b.e)

\* a > b
FGt(a, b) ==
    LET sa == IF a.m > 0 THEN 1 ELSE IF a.m < 0 THEN -1 ELSE 0
        sb == IF b.m > 0 THEN 1 ELSE IF b.m < 0 THEN -1 ELSE 0
        \* |x| > |y| for x, y # 0
        AbsGt(x, y) ==
            IF Order(x) # Order(y) THEN Order(x) > Order(y)
            ELSE LET emin == IF x.e < y.e THEN x.e ELSE y.e
                 IN  Abs(x.m) * Pow10(x.e - emin) > Abs(y.m) * Pow10(y.e - emin)
    IN  IF sa # sb THEN sa > sb
        ELSE IF sa = 0 THEN FALSE
        ELSE IF sa = 1 THEN AbsGt(a, b)
        ELSE AbsGt(b, a)

RECURSIVE ISqrt(_, _, _)
\* largest r in lo..hi with r*r <= n
ISqrt(n, lo, hi) ==
    IF lo >= hi THEN lo
    ELSE LET mid == (lo + hi + 1) \div 2
         IN  IF mid * mid <= n THEN ISqrt(n, mid, hi) ELSE ISqrt(n, lo, mid - 1)

\* square root of a >= 0, correctly rounded to Precision digits
FSqrt(a) ==
    IF a.m = 0 THEN Zero
    ELSE LET \* scale the mantissa to 2*Precision-1 or 2*Precision digits with
             \* an even exponent, so that the integer root has Precision digits
             k0 == 2 * Precision - NumDigits(a.m)
             k  == IF (a.e - k0) % 2 = 0 THEN k0 ELSE k0 - 1
             n  == a.m * Pow10(k)
             r  == ISqrt(n, 0, Pow10(Precision))
             \* n > (r + 1/2)^2  iff  n > r*r + r
         IN  Canon(IF n > r * r + r THEN r + 1 ELSE r, (a.e - k) \div 2)

DivByZero == [err |-> "divide by zero"]

\* a / b; numpy yields inf or nan with a RuntimeWarning when b = 0
FDiv(a, b) ==
    IF b.m = 0 THEN DivByZero
    ELSE IF a.m = 0 THEN Zero
    ELSE LET k  == 2 * Precision + 1 - NumDigits(Abs(a.m))
             n  == Abs(a.m) * Pow10(k)
             d  == Abs(b.m)
             q  == n \div d
             s  == IF (a.m < 0) = (b.m < 0) THEN 1 ELSE -1
         IN  RoundS(s * q, a.e - k - b.e, n % d # 0)

\* ------------------------------------------------------------------- text
Digits == {"0", "1", "2", "3", "4", "5", "6", "7", "8", "9"}
DigitVal(c) ==
    CASE c = "0" -> 0 [] c = "1" -> 1 [] c = "2" -> 2 [] c = "3" -> 3
      [] c = "4" -> 4 [] c = "5" -> 5 [] c = "6" -> 6 [] c = "7" -> 7
      [] c = "8" -> 8 [] c = "9" -> 9

Whitespace == {" "}

RECURSIVE LStrip(_)
LStrip(s) == IF s # <<>> /\ Head(s) \in Whitespace THEN LStrip(Tail(s)) ELSE s

RECURSIVE RStrip(_)
RStrip(s) ==
    IF s # <<>> /\ s[Len(s)] \in Whitespace
    THEN RStrip(SubSeq(s, 1, Len(s) - 1)) ELSE s

\* str.strip()
Strip(s) == RStrip(LStrip(s))

AllDigits(s) == \A i \in 1..Len(s) : s[i] \in Digits

RECURSIVE DigitsVal(_)
DigitsVal(s) ==
    IF s = <<>> THEN 0
    ELSE 10 * DigitsVal(SubSeq(s, 1, Len(s) - 1)) + DigitVal(s[Len(s)])

\* position of the first character of s that is in cs, 0 when there is none
FirstPos(s, cs) ==
    IF \E i \in 1..Len(s) : s[i] \in cs
    THEN CHOOSE i \in 1..Len(s) : s[i] \in cs /\ \A j \in 1..(i - 1) : s[j] \notin cs
    ELSE 0

ValueError == [err |-> "ValueError"]

\* float(str): surrounding whitespace is ignored; then
\*   [sign] (digits [. [digits]] | . digits) [(e|E) [sign] digits]
\* anything else raises ValueError
Negative(s) == s # <<>> /\ Head(s) = "-"
Unsigned(s) == IF s # <<>> /\ Head(s) \in {"+", "-"} THEN Tail(s) ELSE s

\* the text before and after position p of s; all of s and nothing when p = 0
Before(s, p) == IF p = 0 THEN s ELSE SubSeq(s, 1, p - 1)
After(s, p) == IF p = 0 THEN <<>> ELSE SubSeq(s, p + 1, Len(s))

\* the value of ip.fp e exu (has_exp: an exponent mark was present)
FloatValue(neg, ip, fp, has_exp, exneg, exu) ==
    IF /\ AllDigits(ip) /\ AllDigits(fp)
       /\ Len(ip) + Len(fp) >= 1
       /\ (has_exp => exu # <<>> /\ AllDigits(exu))
    THEN RoundF((IF neg THEN -1 ELSE 1) * DigitsVal(ip \o fp),
                (IF exneg THEN -1 ELSE 1) * DigitsVal(exu) - Len(fp))
    ELSE ValueError

\* mant is split at its decimal point dp, ex into sign and digits
FloatParts(neg, mant, dp, has_exp, ex) ==
    FloatValue(neg, Before(mant, dp), After(mant, dp),
               has_exp, Negative(ex), Unsigned(ex))

\* u is split at its exponent mark ep
FloatUnsigned(neg, u, ep) ==
    FloatParts(neg, Before(u, ep), FirstPos(Before(u, ep), {"."}),
               ep # 0, After(u, ep))

FloatStripped(s) ==
    FloatUnsigned(Negative(s), Unsigned(s), FirstPos(Unsigned(s), {"e", "E"}))

float(str) == FloatStripped(Strip(str))

\* str(val) of the integer defaults the lessons put into their entries
str(n) == IF n < 0 THEN <<"-">> \o <<ToString(-n)>> ELSE <<ToString(n)>>

\* f"{x:.{nd}f}": the number the formatted text shows (x rounded to nd
\* decimals, ties to even)
FormatFixed(x, nd) ==
    IF ~IsFloat(x) THEN x
    ELSE IF x.m = 0 \/ x.e >= -nd THEN x
    ELSE IF Order(x) <= -nd - 1 THEN Zero
    ELSE LET d    == -nd - x.e
             p    == Pow10(d)
             a    == Abs(x.m)
             q    == a \div p
             r    == a % p
             half == p \div 2
             up   == r > half \/ (r = half /\ q % 2 = 1)
         IN  Canon((IF x.m < 0 THEN -1 ELSE 1) * (IF up THEN q + 1 ELSE q), -nd)

\* ---------------------------------------------------------------- vectors
\* numpy arrays of floats are sequences of floats
VAdd(a, b) == [i \in 1..Len(a) |-> FAdd(a[i], b[i])]
VSub(a, b) == [i \in 1..Len(a) |-> FSub(a[i], b[i])]
VScale(k, v) == [i \in 1..Len(v) |-> FMul(k, v[i])]
VDiv(v, d) == [i \in 1..Len(v) |-> FDiv(v[i], d)]
zeros_like(v) == [i \in 1..Len(v) |-> Zero]
VFormat(v, nd) == [i \in 1..Len(v) |-> FormatFixed(v[i], nd)]

RECURSIVE SumSq(_)
SumSq(v) ==
    IF v = <<>> THEN Zero
    ELSE FAdd(SumSq(SubSeq(v, 1, Len(v) - 1)), FMul(v[Len(v)], v[Len(v)]))

\* np.linalg.norm
norm(v) == FSqrt(SumSq(v))

\* ---------------------------------------------------------------- config
ENTRY_BG == "#f8f9fa"
ERROR_BG == "#ffcccc"
PRIMARY_BLUE == "#2b7be9"
PRIMARY_RED == "#e24b4b"
PRIMARY_GREEN == "#26a653"

\* the thresholds 1e-10 of plot_vectors, setup_*_plot and the magnitude lesson
EPS == [m |-> 1, e |-> -10]

BASICS == "Vector Basics"
ADDSUB == "Vector Addition & Subtraction"
SCALING == "Vector Scaling"
MAGNITUDE == "Vector Magnitude & Direction"

\* VectorLearningApp.lessons
lessons == <<BASICS, ADDSUB, SCALING, MAGNITUDE>>
LessonNames == {lessons[i] : i \in 1..Len(lessons)}

\* ----------------------------------------------------------- VectorInput
\* an Entry widget: its content and its background colour
NewEntry(text) == [text |-> text, bg |-> ENTRY_BG]

\* VectorInput.__init__ / create_widgets: one entry per default value
VectorInput(default_values) ==
    [i \in 1..Len(default_values) |-> NewEntry(str(default_values[i]))]

\* the body of the loop of get_vector: the value of the stripped text v
Component(v) == IF v = <<>> \/ v = <<"-">> THEN Zero ELSE float(v)

\* get_vector with a wrong default: 1.0 for text that does not parse
get_vector_default_one(entries) ==
    [i \in 1..Len(entries) |->
        IF IsFloat(Component(Strip(entries[i].text)))
        THEN Component(Strip(entries[i].text)) ELSE [m |-> 1, e |-> 0]]

\* VectorInput.get_vector
get_vector(entries) ==
    [i \in 1..Len(entries) |->
        IF IsFloat(Component(Strip(entries[i].text)))
        THEN Component(Strip(entries[i].text)) ELSE Zero]

\* VectorInput.reset that leaves the entries as they are
VectorInput_reset_noop(entries) == entries

\* VectorInput.reset
VectorInput_reset(entries) ==
    [i \in 1..Len(entries) |-> [entries[i] EXCEPT !.text = <<"0">>]]

\* VectorInput.validate_input, bound to <KeyRelease> of every entry
validate_input(entry) ==
    LET value == entry.text
    IN  IF value # <<>> /\ value # <<"-">>
        THEN IF IsFloat(float(value)) THEN [entry EXCEPT !.bg = ENTRY_BG]
             ELSE [entry EXCEPT !.bg = ERROR_BG]
        ELSE entry

\* ------------------------------------------------------------ PlotManager
\* A lesson frame ("tab") is a record:
\*   packed     the frame is packed in main_area
\*   inputs     the VectorInput widgets of the lesson, by attribute name
\*   attrs      the plot attributes that plot_vectors has set on the frame
\*   plots      the live plot containers among the frame's children; a plot is
\*              [widgets |-> its live widgets, refs |-> the frame attributes
\*              that refer to its widgets, figure |-> what was drawn]
\*   has_info   the lesson object has the attribute info_frame
\*   infos      the live info panels among the frame's children, each
\*              [current |-> the lesson's info_frame attribute refers to it,
\*               panel |-> what it shows]
\* and, for single lessons, scalar_entry and op_var.

\* the widget a frame attribute refers to; tab.canvas_widget holds the
\* FigureCanvasTkAgg object, which is not a widget and has no destroy method
HasDestroy(attr) == attr # "canvas_widget"

\* widget.destroy() takes the widget's descendants with it
Subtree(w) ==
    CASE w = "plot_container" ->
            {"plot_container", "plot_frame", "canvas", "toolbar_frame", "toolbar"}
      [] w = "plot_frame" -> {"plot_frame", "canvas", "toolbar_frame", "toolbar"}
      [] w = "toolbar_frame" -> {"toolbar_frame", "toolbar"}
      [] OTHER -> {w}

ContainerAlive(plot) == "plot_container" \in plot.widgets

RECURSIVE DestroyAttrs(_, _, _)
\* the loop of clear_plot over the attribute names
DestroyAttrs(tab_attrs, plots, names) ==
    IF names = <<>> THEN plots
    ELSE LET attr == Head(names)
             after ==
                IF attr \in tab_attrs /\ HasDestroy(attr)
                THEN [i \in 1..Len(plots) |->
                        IF attr \in plots[i].refs
                        THEN [plots[i] EXCEPT !.widgets = @ \ Subtree(attr)]
                        ELSE plots[i]]
                ELSE plots
         IN  DestroyAttrs(tab_attrs, after, Tail(names))

\* clear_plot whose attribute list lacks 'plot_container'
clear_plot_keep_container(tab) ==
    [tab EXCEPT !.plots =
        SelectSeq(DestroyAttrs(tab.attrs, tab.plots,
                               <<"canvas_widget", "toolbar", "plot_frame">>),
                  ContainerAlive)]

\* PlotManager.clear_plot
clear_plot(tab) ==
    [tab EXCEPT !.plots =
        SelectSeq(DestroyAttrs(tab.attrs, tab.plots,
                               <<"canvas_widget", "toolbar", "plot_frame", "plot_container">>),
                  ContainerAlive)]

\* needs_3d that looks at the last vector (the result) only
needs_3d_last_only(vectors) ==
    LET vec == vectors[Len(vectors)]
    IN  Len(vec) >= 3 /\ FGt(FAbs(vec[3]), EPS)

\* the test of plot_vectors for a 3D figure
needs_3d(vectors) ==
    \E i \in 1..Len(vectors) :
        Len(vectors[i]) >= 3 /\ FGt(FAbs(vectors[i][3]), EPS)

\* quiver + text of one vector
Arrow(vec, color, label) ==
    [start |-> zeros_like(vec), delta |-> vec, color |-> color, label |-> label,
     text |-> [label |-> label, coords |-> VFormat(vec, 2)]]

RECURSIVE setup_3d_plot_unguarded(_, _, _)
\* setup_3d_plot without the magnitude test: an arrow for every vector
setup_3d_plot_unguarded(vectors, colors, labels) ==
    IF vectors = <<>> THEN <<>>
    ELSE <<Arrow(Head(vectors), Head(colors), Head(labels))>>
         \o setup_3d_plot_unguarded(Tail(vectors), Tail(colors), Tail(labels))

RECURSIVE setup_3d_plot(_, _, _)
\* PlotManager.setup_3d_plot: the arrows drawn
setup_3d_plot(vectors, colors, labels) ==
    IF vectors = <<>> THEN <<>>
    ELSE LET vec == Head(vectors)
         IN  (IF FGt(norm(vec), EPS)
              THEN <<Arrow(vec, Head(colors), Head(labels))>> ELSE <<>>)
             \o setup_3d_plot(Tail(vectors), Tail(colors), Tail(labels))

RECURSIVE setup_2d_plot(_, _, _)
\* PlotManager.setup_2d_plot: the arrows drawn
setup_2d_plot(vectors, colors, labels) ==
    IF vectors = <<>> THEN <<>>
    ELSE LET vec == Head(vectors)
         IN  (IF FGt(norm(SubSeq(vec, 1, 2)), EPS)
              THEN <<Arrow(SubSeq(vec, 1, 2), Head(colors), Head(labels))>> ELSE <<>>)
             \o setup_2d_plot(Tail(vectors), Tail(colors), Tail(labels))

\* the figure plot_vectors draws
Figure(vectors, colors, labels, title, limits) ==
    [projection |-> IF needs_3d(vectors) THEN "3d" ELSE "2d",
     vectors |-> vectors, colors |-> colors, labels |-> labels,
     arrows |-> IF needs_3d(vectors) THEN setup_3d_plot(vectors, colors, labels)
                ELSE setup_2d_plot(vectors, colors, labels),
     title |-> title, limits |-> limits,
     legend |-> Len(vectors) > 1]

\* the attributes plot_vectors sets on the frame
PlotAttrs(show_toolbar) ==
    {"plot_container", "plot_frame", "canvas_widget"}
        \cup (IF show_toolbar THEN {"toolbar"} ELSE {})

\* the widgets plot_vectors creates
PlotWidgets(show_toolbar) ==
    {"plot_container", "plot_frame", "canvas"}
        \cup (IF show_toolbar THEN {"toolbar_frame", "toolbar"} ELSE {})

\* plot_vectors after clear_plot: the new widgets are packed into the frame
\* and its attributes are set to them
pack_plot(cleared, figure, show_toolbar) ==
    [cleared EXCEPT
        !.plots = Append([i \in 1..Len(cleared.plots) |->
                             [cleared.plots[i] EXCEPT
                                 !.refs = @ \ PlotAttrs(show_toolbar)]],
                         [widgets |-> PlotWidgets(show_toolbar),
                          refs |-> PlotAttrs(show_toolbar),
                          figure |-> figure]),
        !.attrs = @ \cup PlotAttrs(show_toolbar)]

\* PlotManager.plot_vectors
plot_vectors(tab, vectors, colors, labels, title, limits, show_toolbar) ==
    pack_plot(clear_plot(tab), Figure(vectors, colors, labels, title, limits),
              show_toolbar)

\* the live info panels once the lesson's info_frame, if any, is destroyed
InfosLeft(tab) ==
    IF tab.has_info THEN SelectSeq(tab.infos, LAMBDA f : ~f.current) ELSE tab.infos

\* the start of every show_info: destroy the previous panel, pack a new one
pack_info_frame(tab, panel) ==
    [tab EXCEPT !.infos = Append([i \in 1..Len(InfosLeft(tab)) |->
                                     [InfosLeft(tab)[i] EXCEPT !.current = FALSE]],
                                 [current |-> TRUE, panel |-> panel]),
                !.has_info = TRUE]

\* the end of every lesson's reset: destroy the info panel, clear the plot
destroy_info_and_plot(tab) == clear_plot([tab EXCEPT !.infos = InfosLeft(tab)])

\* ---------------------------------------------------------------- lessons
NewTab(inputs) ==
    [packed |-> FALSE, inputs |-> inputs, attrs |-> {}, plots |-> <<>>,
     has_info |-> FALSE, infos |-> <<>>]

Text(fmt, args) == [fmt |-> fmt, args |-> args]

\* VectorBasicsLesson.create_ui
VectorBasicsLesson == NewTab([vector_input |-> VectorInput(<<3, 4, 2>>)])

\* VectorBasicsLesson.show_info
Basics_show_info(tab, vec, mag) ==
    pack_info_frame(tab,
        [title |-> "Vector Analysis", vec |-> vec, mag |-> mag,
         labels |-> <<VFormat(vec, 3), FormatFixed(mag, 4)>>])

\* VectorBasicsLesson.plot once vec is read
Basics_plot_vec(tab, vec) ==
    Basics_show_info(
        plot_vectors(tab, <<vec>>, <<PRIMARY_BLUE>>, <<Text("V", <<>>)>>,
                     Text("Vector Visualization", <<>>), 10, TRUE),
        vec, norm(vec))

\* VectorBasicsLesson.plot
Basics_plot(tab) == Basics_plot_vec(tab, get_vector(tab.inputs.vector_input))

\* VectorBasicsLesson.reset
Basics_reset(tab) ==
    destroy_info_and_plot(
        [tab EXCEPT !.inputs.vector_input = VectorInput_reset(@)])

\* VectorAddSubLesson.create_ui
VectorAddSubLesson ==
    NewTab([vector_a |-> VectorInput(<<3, 2, 1>>),
            vector_b |-> VectorInput(<<1, 3, -1>>)]) @@ [op_var |-> "Add"]

\* VectorAddSubLesson.show_info
AddSub_show_info(tab, vec_a, vec_b, result, op) ==
    pack_info_frame(tab,
        [title |-> Text("{op}ition Result", <<op>>),
         vec_a |-> vec_a, vec_b |-> vec_b, result |-> result, op |-> op,
         sign |-> IF op = "Add" THEN "+" ELSE "-",
         labels |-> <<VFormat(vec_a, 3), VFormat(vec_b, 3), VFormat(result, 3)>>])

\* VectorAddSubLesson.compute once result is computed
AddSub_plot_result(tab, vec_a, vec_b, result, op) ==
    AddSub_show_info(
        plot_vectors(tab, <<vec_a, vec_b, result>>,
                     <<PRIMARY_BLUE, PRIMARY_RED, PRIMARY_GREEN>>,
                     <<Text("A", <<>>), Text("B", <<>>), Text("Result", <<>>)>>,
                     Text("Vector {op}ition", <<op>>), 12, TRUE),
        vec_a, vec_b, result, op)

\* VectorAddSubLesson.compute once vec_a, vec_b and op are read
AddSub_compute_vecs(tab, vec_a, vec_b, op) ==
    AddSub_plot_result(tab, vec_a, vec_b,
        IF op = "Add" THEN VAdd(vec_a, vec_b) ELSE VSub(vec_a, vec_b), op)

\* compute with the operands of the subtraction swapped
AddSub_compute_swapped(tab) ==
    LET vec_a == get_vector(tab.inputs.vector_a)
        vec_b == get_vector(tab.inputs.vector_b)
        op    == tab.op_var
    IN  AddSub_plot_result(tab, vec_a, vec_b,
            IF op = "Add" THEN VAdd(vec_a, vec_b) ELSE VSub(vec_b, vec_a), op)

\* VectorAddSubLesson.compute
AddSub_compute(tab) ==
    AddSub_compute_vecs(tab, get_vector(tab.inputs.vector_a),
                        get_vector(tab.inputs.vector_b), tab.op_var)

\* VectorAddSubLesson.reset
AddSub_reset(tab) ==
    destroy_info_and_plot(
        [tab EXCEPT !.inputs.vector_a = VectorInput_reset(@),
                    !.inputs.vector_b = VectorInput_reset(@)])

\* VectorScalingLesson.create_ui
VectorScalingLesson ==
    NewTab([vector_input |-> VectorInput(<<2, 3, 1>>)])
        @@ [scalar_entry |-> NewEntry(<<"2">>)]

\* VectorScalingLesson.show_info
Scaling_show_info(tab, vec, k, scaled_vec) ==
    pack_info_frame(tab,
        [title |-> "Scalar Multiplication Result",
         vec |-> vec, k |-> k, scaled_vec |-> scaled_vec,
         labels |-> <<VFormat(vec, 3), k, VFormat(scaled_vec, 3)>>])

\* VectorScalingLesson.compute once scaled_vec is computed
Scaling_plot_result(tab, vec, k, scaled_vec) ==
    Scaling_show_info(
        plot_vectors(tab, <<vec, scaled_vec>>, <<PRIMARY_BLUE, PRIMARY_GREEN>>,
                     <<Text("V", <<>>), Text("{k}.V", <<k>>)>>,
                     Text("Vector Scaling (k={k})", <<k>>), 12, TRUE),
        vec, k, scaled_vec)

\* VectorScalingLesson.compute once vec is read and the scalar is converted:
\* the frame afterwards and the dialog shown
Scaling_compute_scalar(tab, vec, k) ==
    IF ~IsFloat(k)
    THEN [tab |-> tab, dialog |-> "showerror"]
    ELSE [tab |-> Scaling_plot_result(tab, vec, k, VScale(k, vec)),
          dialog |-> "none"]

\* compute that reads an unparsable scalar as 0, the way get_vector does
Scaling_compute_zero_scalar(tab) ==
    LET parsed == float(tab.scalar_entry.text)
    IN  Scaling_compute_scalar(tab, get_vector(tab.inputs.vector_input),
                               IF IsFloat(parsed) THEN parsed ELSE Zero)

\* compute that scales the array in place (vec *= k): V itself is changed
Scaling_compute_in_place(tab) ==
    LET vec == get_vector(tab.inputs.vector_input)
        k   == float(tab.scalar_entry.text)
    IN  IF ~IsFloat(k)
        THEN [tab |-> tab, dialog |-> "showerror"]
        ELSE [tab |-> Scaling_plot_result(tab, VScale(k, vec), k, VScale(k, vec)),
              dialog |-> "none"]

\* VectorScalingLesson.compute
Scaling_compute(tab) ==
    Scaling_compute_scalar(tab, get_vector(tab.inputs.vector_input),
                           float(tab.scalar_entry.text))

\* VectorScalingLesson.reset
Scaling_reset(tab) ==
    destroy_info_and_plot(
        [tab EXCEPT !.inputs.vector_input = VectorInput_reset(@),
                    !.scalar_entry.text = <<"1">>])

\* VectorMagnitudeLesson.create_ui
VectorMagnitudeLesson == NewTab([vector_input |-> VectorInput(<<3, 4, 5>>)])

\* VectorMagnitudeLesson.show_info
Magnitude_show_info(tab, vec, mag, direction) ==
    pack_info_frame(tab,
        [title |-> "Vector Analysis", vec |-> vec, mag |-> mag,
         direction |-> direction,
         labels |-> <<VFormat(vec, 3), FormatFixed(mag, 4), VFormat(direction, 3)>>])

\* VectorMagnitudeLesson.compute once direction is computed
Magnitude_plot_result(tab, vec, mag, direction) ==
    Magnitude_show_info(
        plot_vectors(tab, <<vec>>, <<PRIMARY_BLUE>>, <<Text("V", <<>>)>>,
                     Text("Vector Magnitude & Direction", <<>>), 12, TRUE),
        vec, mag, direction)

\* VectorMagnitudeLesson.compute once vec is read and mag is computed
Magnitude_compute_mag(tab, vec, mag) ==
    Magnitude_plot_result(tab, vec, mag,
        IF FGt(mag, EPS) THEN VDiv(vec, mag) ELSE zeros_like(vec))

\* compute without the small-magnitude guard
Magnitude_compute_unguarded(tab) ==
    LET vec == get_vector(tab.inputs.vector_input)
    IN  Magnitude_plot_result(tab, vec, norm(vec), VDiv(vec, norm(vec)))

\* VectorMagnitudeLesson.compute once vec is read
Magnitude_compute_vec(tab, vec) == Magnitude_compute_mag(tab, vec, norm(vec))

\* VectorMagnitudeLesson.compute
Magnitude_compute(tab) ==
    Magnitude_compute_vec(tab, get_vector(tab.inputs.vector_input))

\* VectorMagnitudeLesson.reset
Magnitude_reset(tab) ==
    destroy_info_and_plot(
        [tab EXCEPT !.inputs.vector_input = VectorInput_reset(@)])

\* the lesson object the branch of show_lesson builds in the new frame
NewLesson(name) ==
    CASE name = BASICS -> VectorBasicsLesson
      [] name = ADDSUB -> VectorAddSubLesson
      [] name = SCALING -> VectorScalingLesson
      [] name = MAGNITUDE -> VectorMagnitudeLesson

\* the command of the lesson's "Plot" / "Compute" button
Compute(name, tab) ==
    CASE name = BASICS -> [tab |-> Basics_plot(tab), dialog |-> "none"]
      [] name = ADDSUB -> [tab |-> AddSub_compute(tab), dialog |-> "none"]
      [] name = SCALING -> Scaling_compute(tab)
      [] name = MAGNITUDE -> [tab |-> Magnitude_compute(tab), dialog |-> "none"]

\* the command of the lesson's "Reset" button
Reset(name, tab) ==
    CASE name = BASICS -> Basics_reset(tab)
      [] name = ADDSUB -> AddSub_reset(tab)
      [] name = SCALING -> Scaling_reset(tab)
      [] name = MAGNITUDE -> Magnitude_reset(tab)

\* ------------------------------------------------------ VectorLearningApp
VARIABLES
    lesson_frames,  \* VectorLearningApp.lesson_frames: lesson name -> frame
    dialog,         \* the messagebox shown in response to the last user action
    requested,      \* history: the argument of the last show_lesson
    edits,          \* number of field edits made so far
    figures,        \* number of figures open in pyplot (plt.get_fignums())
    scroll_region   \* main_canvas scrollregion: the content it was computed for

vars == <<lesson_frames, dialog, requested, edits, figures, scroll_region>>

\* plt.figure(...) of plot_vectors and of FormulaRenderer.render
FigurePerPlot == 1
FigurePerFormula == 1

\* the figures one computation creates: plot_vectors, then show_info with
\* one FormulaRenderer.render
FiguresCreated == FigurePerPlot + FigurePerFormula

\* the attributes of the objects plot_vectors may find as tab.master
Attributes(object) ==
    CASE object = "app" -> {"update_main_scroll", "on_window_resize",
                            "show_lesson", "reset_all", "lesson_frames",
                            "main_area", "main_canvas"}
      [] object = "main_area" -> {"master", "children", "pack", "pack_forget",
                                  "destroy", "update_idletasks"}

\* the master of every lesson frame: f = tk.Frame(self.main_area, ...)
TabMaster == "main_area"

\* what main_canvas.bbox("all") depends on: the packed lesson frame and the
\* plots and info panels in it
Content(frames) ==
    LET name == CHOOSE n \in DOMAIN frames : frames[n].packed
    IN  [lesson |-> name, plots |-> Len(frames[name].plots),
         infos |-> Len(frames[name].infos)]

\* VectorLearningApp.update_main_scroll
update_main_scroll(frames) == Content(frames)

\* the end of plot_vectors: the scroll region once the plot is packed into
\* frame name, whose info panels are still those of tab
plot_vectors_scroll(region, name, tab) ==
    IF "update_main_scroll" \in Attributes(TabMaster)
    THEN [lesson |-> name, plots |-> 1, infos |-> Len(tab.infos)]
    ELSE region

NoFrames == [n \in {} |-> {}]

\* show_lesson that destroys the other frames instead of hiding them
show_lesson_dropping_hidden(frames, name) ==
    [n \in {name} |->
        [(IF name \in DOMAIN frames THEN frames[name] ELSE NewLesson(name))
            EXCEPT !.packed = TRUE]]

\* show_lesson without the pack_forget loop
show_lesson_no_forget(frames, name) ==
    LET created == IF name \notin DOMAIN frames
                   THEN [n \in DOMAIN frames \cup {name} |->
                            IF n = name THEN NewLesson(name) ELSE frames[n]]
                   ELSE frames
    IN  [created EXCEPT ![name].packed = TRUE]

\* show_lesson that builds the frame and the lesson on every selection
show_lesson_recreate(frames, name) ==
    LET hidden == [n \in DOMAIN frames |-> [frames[n] EXCEPT !.packed = FALSE]]
    IN  [n \in DOMAIN hidden \cup {name} |->
            IF n = name THEN [NewLesson(name) EXCEPT !.packed = TRUE]
            ELSE hidden[n]]

\* VectorLearningApp.show_lesson
show_lesson(frames, name) ==
    LET hidden  == [n \in DOMAIN frames |-> [frames[n] EXCEPT !.packed = FALSE]]
        created == IF name \notin DOMAIN hidden
                   THEN [n \in DOMAIN hidden \cup {name} |->
                            IF n = name THEN NewLesson(name) ELSE hidden[n]]
                   ELSE hidden
    IN  [created EXCEPT ![name].packed = TRUE]

\* VectorLearningApp.__init__: init_lessons, then show_lesson("Vector Basics")
Init ==
    /\ lesson_frames = show_lesson(NoFrames, BASICS)
    /\ dialog = "none"
    /\ requested = BASICS
    /\ edits = 0
    /\ figures = 0
    /\ scroll_region = update_main_scroll(lesson_frames)

\* a sidebar button is pressed
ShowLesson(name) ==
    /\ lesson_frames' = show_lesson(lesson_frames, name)
    /\ scroll_region' = update_main_scroll(lesson_frames')
    /\ dialog' = "none"
    /\ requested' = name
    /\ UNCHANGED <<edits, figures>>

\* reset_all that keeps the frames: neither destroys them nor clears the
\* dictionary before it shows the first lesson
ResetAll_keep_frames(answer) ==
    /\ dialog' = "askyesno"
    /\ IF answer
       THEN /\ lesson_frames' = show_lesson(lesson_frames, lessons[1])
            /\ scroll_region' = update_main_scroll(lesson_frames')
            /\ requested' = lessons[1]
       ELSE UNCHANGED <<lesson_frames, requested, scroll_region>>
    /\ UNCHANGED <<edits, figures>>

\* VectorLearningApp.reset_all; answer is what the user tells askyesno
ResetAll(answer) ==
    /\ dialog' = "askyesno"
    /\ IF answer
       THEN /\ lesson_frames' = show_lesson(NoFrames, lessons[1])
            /\ scroll_region' = update_main_scroll(lesson_frames')
            /\ requested' = lessons[1]
       ELSE UNCHANGED <<lesson_frames, requested, scroll_region>>
    /\ UNCHANGED <<edits, figures>>

\* a <Configure> event reaches the binding of the root window
\* (VectorLearningApp.on_window_resize)
WindowConfigure ==
    /\ scroll_region' = update_main_scroll(lesson_frames)
    /\ dialog' = "none"
    /\ UNCHANGED <<lesson_frames, requested, edits, figures>>

\* what the user puts into the fields of the application
SampleTexts ==
    { <<>>, <<"x">>, <<"-", "4">>, <<"1", "e", "-", "1", "1">> }

Visible(name) == name \in DOMAIN lesson_frames /\ lesson_frames[name].packed

\* the content of entry i of a VectorInput of the visible lesson is replaced
\* and the key is released: validate_input runs on the entry
KeyRelease(name, input, i, text) ==
    /\ Visible(name)
    /\ edits < MaxEdits
    /\ input \in DOMAIN lesson_frames[name].inputs
    /\ text # lesson_frames[name].inputs[input][i].text
    /\ lesson_frames' = [lesson_frames EXCEPT ![name].inputs[input][i] =
                            validate_input([@ EXCEPT !.text = text])]
    /\ edits' = edits + 1
    /\ dialog' = "none"
    /\ UNCHANGED <<requested, figures, scroll_region>>

\* the content of the scalar entry is replaced; no handler is bound to it
EditScalar(text) ==
    /\ Visible(SCALING)
    /\ edits < MaxEdits
    /\ text # lesson_frames[SCALING].scalar_entry.text
    /\ lesson_frames' = [lesson_frames EXCEPT ![SCALING].scalar_entry.text = text]
    /\ edits' = edits + 1
    /\ dialog' = "none"
    /\ UNCHANGED <<requested, figures, scroll_region>>

\* a radio button of the operation is selected
SelectOp(op) ==
    /\ Visible(ADDSUB)
    /\ op # lesson_frames[ADDSUB].op_var
    /\ lesson_frames' = [lesson_frames EXCEPT ![ADDSUB].op_var = op]
    /\ dialog' = "none"
    /\ UNCHANGED <<requested, edits, figures, scroll_region>>

\* the "Plot" / "Compute" button of the visible lesson is pressed
PressCompute(name) ==
    /\ Visible(name)
    /\ figures < MaxComputes * FiguresCreated
    /\ \E r \in {Compute(name, lesson_frames[name])} :
          /\ lesson_frames' = [lesson_frames EXCEPT ![name] = r.tab]
          /\ dialog' = r.dialog
          /\ IF r.dialog = "showerror"
             THEN UNCHANGED <<figures, scroll_region>>
             ELSE /\ figures' = figures + FiguresCreated
                  /\ scroll_region' =
                        plot_vectors_scroll(scroll_region, name, lesson_frames[name])
    /\ UNCHANGED <<requested, edits>>

\* the "Reset" button of the visible lesson is pressed
PressReset(name) ==
    /\ Visible(name)
    /\ lesson_frames' = [lesson_frames EXCEPT ![name] = Reset(name, @)]
    /\ dialog' = "none"
    /\ UNCHANGED <<requested, edits, figures, scroll_region>>

\* the application: navigation between the lessons, their buttons
Next ==
    \/ \E name \in LessonNames : ShowLesson(name)
    \/ \E answer \in BOOLEAN : ResetAll(answer)
    \/ WindowConfigure
    \/ \E op \in {"Add", "Subtract"} : SelectOp(op)
    \/ \E name \in LessonNames : PressCompute(name)
    \/ \E name \in LessonNames : PressReset(name)

Spec == Init /\ [][Next]_vars

\* one lesson at work: the application has been started and a lesson has
\* been selected; the user edits its fields and presses its buttons
InitLesson ==
    /\ \E name \in LessonNames :
          /\ lesson_frames = show_lesson(show_lesson(NoFrames, BASICS), name)
          /\ requested = name
    /\ dialog = "none"
    /\ edits = 0
    /\ figures = 0
    /\ scroll_region = update_main_scroll(lesson_frames)

NextLesson ==
    \/ \E name \in LessonNames, input \in {"vector_input", "vector_a", "vector_b"},
          i \in 1..3, text \in SampleTexts : KeyRelease(name, input, i, text)
    \/ \E text \in SampleTexts \cup {<<"0">>} : EditScalar(text)
    \/ \E op \in {"Add", "Subtract"} : SelectOp(op)
    \/ \E name \in LessonNames : PressCompute(name)
    \/ \E name \in LessonNames : PressReset(name)

SpecLesson == InitLesson /\ [][NextLesson]_vars

\* get_vector on arbitrary field contents: the application has been started
\* and the three entries of the first lesson hold any texts over Alphabet of
\* at most MaxLen characters in total; the user presses "Plot Vector"
Alphabet == {"1", "5", "-", ".", "e", " ", "x"}

InitGetVector ==
    /\ \E l1 \in 0..MaxLen : \E l2 \in 0..(MaxLen - l1) : \E l3 \in 0..(MaxLen - l1 - l2) :
       \E t1 \in [1..l1 -> Alphabet], t2 \in [1..l2 -> Alphabet], t3 \in [1..l3 -> Alphabet] :
          lesson_frames = [show_lesson(NoFrames, BASICS) EXCEPT
                              ![BASICS].inputs.vector_input =
                                  <<NewEntry(t1), NewEntry(t2), NewEntry(t3)>>]
    /\ dialog = "none"
    /\ requested = BASICS
    /\ edits = 0
    /\ figures = 0
    /\ scroll_region = update_main_scroll(lesson_frames)

NextGetVector == PressCompute(BASICS)

SpecGetVector == InitGetVector /\ [][NextGetVector]_vars

\* ------------------------------------------------------------------ claims
Tabs == DOMAIN lesson_frames
Packed == {n \in Tabs : lesson_frames[n].packed}

\* C1: whatever the three entries of a VectorInput hold, get_vector yields
\* three numbers and no dialog is shown: component i is the value of field i
\* when its stripped text parses as a number, and 0 when the stripped text is
\* empty, is "-" or does not parse.
C1_GetVectorDefaultsToZero ==
    LET tab == lesson_frames[BASICS]
    IN  tab.plots # <<>> =>
            LET vec == tab.plots[1].figure.vectors[1]
            IN  /\ Len(vec) = 3
                /\ dialog = "none"
                /\ \A i \in 1..3 :
                      LET t == Strip(tab.inputs.vector_input[i].text)
                      IN  /\ IsFloat(vec[i])
                          /\ vec[i] = IF t = <<>> \/ t = <<"-">> \/ ~IsFloat(float(t))
                                      THEN Zero ELSE float(t)

\* C1 witness: a vector has been read from an unparsable, a numeric and a "-" field
C1_Witness ==
    LET tab == lesson_frames[BASICS]
    IN  /\ tab.plots # <<>>
        /\ tab.inputs.vector_input[1].text = <<"x">>
        /\ tab.inputs.vector_input[2].text = <<"5">>
        /\ tab.inputs.vector_input[3].text = <<"-">>
        /\ tab.plots[1].figure.vectors[1] = <<Zero, [m |-> 5, e |-> 0], Zero>>

\* C2: in the Vector Scaling lesson, a press of Compute while the scalar
\* field does not parse as a number (the empty field included) shows an
\* error dialog and leaves the plot, the info panel and the entries of the
\* lesson as they were; the scalar is not replaced by zero.
C2_InvalidScalarShowsError ==
    [][(/\ Visible(SCALING)
        /\ ~IsFloat(float(lesson_frames[SCALING].scalar_entry.text))
        /\ PressCompute(SCALING))
       => (dialog' = "showerror" /\ lesson_frames' = lesson_frames)]_vars

\* C2 witness: Compute has been pressed on an empty scalar field; the error
\* dialog is up and the plot of the earlier computation with k = 2 is kept
C2_Witness ==
    /\ Visible(SCALING)
    /\ dialog = "showerror"
    /\ lesson_frames[SCALING].scalar_entry.text = <<>>
    /\ Len(lesson_frames[SCALING].plots) = 1
    /\ Len(lesson_frames[SCALING].infos) = 1
    /\ lesson_frames[SCALING].infos[1].panel.k = [m |-> 2, e |-> 0]

\* C3: in the Vector Magnitude & Direction lesson compute never divides by
\* zero: the direction shown has three numeric components; it is the zero
\* vector when the magnitude is not greater than 1e-10 and the vector
\* divided by its magnitude otherwise.
C3_DirectionGuarded ==
    MAGNITUDE \in Tabs =>
        \A p \in 1..Len(lesson_frames[MAGNITUDE].infos) :
            LET panel == lesson_frames[MAGNITUDE].infos[p].panel
            IN  /\ panel.mag = FSqrt(SumSq(panel.vec))
                /\ Len(panel.direction) = 3
                /\ \A i \in 1..3 :
                      /\ IsFloat(panel.direction[i])
                      /\ panel.direction[i] =
                            IF FGt(panel.mag, EPS)
                            THEN FDiv(panel.vec[i], panel.mag) ELSE Zero

\* C3 witness: the direction of a vector of magnitude 1e-11 is shown as zero
C3_Witness ==
    /\ Visible(MAGNITUDE)
    /\ lesson_frames[MAGNITUDE].infos # <<>>
    /\ LET panel == lesson_frames[MAGNITUDE].infos[1].panel
       IN  /\ panel.mag = [m |-> 1, e |-> -11]
           /\ panel.direction = <<Zero, Zero, Zero>>

\* C4: in the Vector Addition & Subtraction lesson, with A and B read from
\* the fields, compute plots and shows the componentwise sum A+B when the
\* operation is "Add" and the componentwise difference A-B when it is
\* "Subtract"; the plot and the info panel get the same A, B and result.
C4_AddSubResult ==
    [][(figures' # figures /\ PressCompute(ADDSUB)) =>
        LET before == lesson_frames[ADDSUB]
            after  == lesson_frames'[ADDSUB]
            a      == get_vector(before.inputs.vector_a)
            b      == get_vector(before.inputs.vector_b)
            r      == [i \in 1..3 |-> IF before.op_var = "Add"
                                      THEN FAdd(a[i], b[i]) ELSE FSub(a[i], b[i])]
            figure == after.plots[Len(after.plots)].figure
            panel  == after.infos[Len(after.infos)].panel
        IN  /\ before.op_var \in {"Add", "Subtract"}
            /\ figure.vectors = <<a, b, r>>
            /\ panel.vec_a = a /\ panel.vec_b = b /\ panel.result = r
            /\ panel.op = before.op_var]_vars

\* C4 witness: (3, 2, 1) - (-4, 3, -1) = (7, -1, 2) is plotted and shown
C4_Witness ==
    /\ Visible(ADDSUB)
    /\ lesson_frames[ADDSUB].plots # <<>>
    /\ lesson_frames[ADDSUB].infos # <<>>
    /\ lesson_frames[ADDSUB].infos[1].panel.op = "Subtract"
    /\ lesson_frames[ADDSUB].plots[1].figure.vectors[3] =
          <<[m |-> 7, e |-> 0], [m |-> -1, e |-> 0], [m |-> 2, e |-> 0]>>
    /\ lesson_frames[ADDSUB].infos[1].panel.result =
          lesson_frames[ADDSUB].plots[1].figure.vectors[3]

\* C5: in the Vector Scaling lesson, with V read from the fields and a
\* scalar k that parses, compute plots and shows the vector whose components
\* are k times those of V, and plots the original V unchanged next to it.
C5_ScalingResult ==
    [][(/\ Visible(SCALING)
        /\ IsFloat(float(lesson_frames[SCALING].scalar_entry.text))
        /\ PressCompute(SCALING))
       => LET before == lesson_frames[SCALING]
              after  == lesson_frames'[SCALING]
              v      == get_vector(before.inputs.vector_input)
              k      == float(before.scalar_entry.text)
              kv     == [i \in 1..3 |-> FMul(k, v[i])]
              figure == after.plots[Len(after.plots)].figure
              panel  == after.infos[Len(after.infos)].panel
          IN  /\ figure.vectors = <<v, kv>>
              /\ panel.vec = v /\ panel.k = k /\ panel.scaled_vec = kv
              /\ dialog' = "none"]_vars

\* C5 witness: -4 . (2, 3, 1) = (-8, -12, -4) is plotted next to (2, 3, 1)
C5_Witness ==
    /\ Visible(SCALING)
    /\ lesson_frames[SCALING].plots # <<>>
    /\ lesson_frames[SCALING].plots[1].figure.vectors =
          << <<[m |-> 2, e |-> 0], [m |-> 3, e |-> 0], [m |-> 1, e |-> 0]>>,
             <<[m |-> -8, e |-> 0], [m |-> -12, e |-> 0], [m |-> -4, e |-> 0]>> >>

\* C6: after any sequence of plot/compute and Reset presses, a lesson panel
\* holds at most one live plot container: plot_vectors has destroyed the
\* container, frame and toolbar of the previous plot before packing the new
\* one, so the only plot left is the one the attributes of the panel name.
C6_AtMostOnePlotContainer ==
    \A n \in Tabs :
        LET tab == lesson_frames[n]
        IN  /\ Len(tab.plots) <= 1
            /\ \A p \in 1..Len(tab.plots) :
                  /\ "plot_container" \in tab.plots[p].widgets
                  /\ tab.plots[p].refs =
                        {"plot_container", "plot_frame", "canvas_widget", "toolbar"}

\* C6 witness: after a plot, a Reset and another plot the panel of the first
\* lesson holds one plot, that of the vector (0, 0, 0)
C6_Witness ==
    /\ Visible(BASICS)
    /\ Len(lesson_frames[BASICS].plots) = 1
    /\ lesson_frames[BASICS].plots[1].figure.vectors = <<(<<Zero, Zero, Zero>>)>>

\* C7: a figure is 3D if and only if at least one of the vectors passed to
\* plot_vectors has a z-component of absolute value greater than 1e-10, and
\* 2D otherwise; one such vector makes the plot 3D even when the z of the
\* result is zero.
C7_ThreeDIffSomeZ ==
    \A n \in Tabs :
        \A p \in 1..Len(lesson_frames[n].plots) :
            LET figure == lesson_frames[n].plots[p].figure
                big(v) == Len(v) = 3 /\ (FGt(v[3], EPS) \/ FGt(FNeg(v[3]), EPS))
            IN  /\ figure.projection \in {"2d", "3d"}
                /\ figure.projection = "3d" <=>
                      \E i \in 1..Len(figure.vectors) : big(figure.vectors[i])

\* C7 witness: A = (3, 2, 1) and B = (1, 3, -1) are added; the z of the
\* result is zero and the figure is 3D
C7_Witness ==
    /\ Visible(ADDSUB)
    /\ lesson_frames[ADDSUB].plots # <<>>
    /\ LET figure == lesson_frames[ADDSUB].plots[1].figure
       IN  /\ figure.projection = "3d"
           /\ figure.vectors[1][3] = [m |-> 1, e |-> 0]
           /\ figure.vectors[2][3] = [m |-> -1, e |-> 0]
           /\ figure.vectors[3][3] = Zero

\* C8 as stated: every figure has one arrow per vector passed to
\* plot_vectors, from the origin and with the label of the vector, a zero
\* vector included.
C8_Original ==
    \A n \in Tabs :
        \A p \in 1..Len(lesson_frames[n].plots) :
            LET figure == lesson_frames[n].plots[p].figure
            IN  /\ Len(figure.arrows) = Len(figure.vectors)
                /\ \A i \in 1..Len(figure.vectors) :
                      /\ figure.arrows[i].label = figure.labels[i]
                      /\ figure.arrows[i].start = zeros_like(figure.arrows[i].delta)

\* C8: every figure has one arrow, from the origin and with the label and
\* the coordinates of the vector, for each vector passed to plot_vectors
\* whose magnitude (over x, y, z in a 3D figure, over x, y in a 2D figure)
\* is greater than 1e-10, in the order of the list; a vector of smaller
\* magnitude, the zero vector among them, gets no arrow and no label.
C8_ArrowPerNonNegligibleVector ==
    \A n \in Tabs :
        \A p \in 1..Len(lesson_frames[n].plots) :
            LET figure == lesson_frames[n].plots[p].figure
                dim    == IF figure.projection = "3d" THEN 3 ELSE 2
                part(i) == SubSeq(figure.vectors[i], 1, dim)
                drawn  == {i \in 1..Len(figure.vectors) :
                              FGt(FSqrt(SumSq(part(i))), EPS)}
            IN  /\ Len(figure.arrows) = Cardinality(drawn)
                /\ \A i \in drawn :
                      LET arrow == figure.arrows[Cardinality({k \in drawn : k <= i})]
                      IN  /\ arrow.start = [c \in 1..dim |-> Zero]
                          /\ arrow.delta = part(i)
                          /\ arrow.color = figure.colors[i]
                          /\ arrow.label = figure.labels[i]
                          /\ arrow.text = [label |-> figure.labels[i],
                                           coords |-> VFormat(part(i), 2)]

\* C8 witness: (2, 3, 1) scaled by 0: a 3D figure of two vectors with the
\* arrow of V only
C8_Witness ==
    /\ Visible(SCALING)
    /\ lesson_frames[SCALING].plots # <<>>
    /\ LET figure == lesson_frames[SCALING].plots[1].figure
       IN  /\ figure.projection = "3d"
           /\ figure.vectors[2] = <<Zero, Zero, Zero>>
           /\ Len(figure.arrows) = 1
           /\ figure.arrows[1].label = figure.labels[1]

\* C9 as stated: no lesson that is not on screen retains entry values, a
\* plot or a computed result.
C9_Original ==
    \A n \in Tabs :
        ~lesson_frames[n].packed =>
            /\ lesson_frames[n].plots = <<>>
            /\ lesson_frames[n].infos = <<>>
            /\ lesson_frames[n].inputs = NewLesson(n).inputs

\* C9: the application keeps the frame of every lesson selected since the
\* construction or the last confirmed Reset All: a lesson that leaves the
\* screen, stays off it or comes back to it does so with its entry values,
\* its plot and its computed result unchanged; only a confirmed Reset All
\* discards the frames.
C9_HiddenLessonsKeepState ==
    [][\/ ResetAll(TRUE)
       \/ \A n \in Tabs :
             /\ n \in DOMAIN lesson_frames'
             /\ (~lesson_frames[n].packed \/ ~lesson_frames'[n].packed) =>
                   [lesson_frames'[n] EXCEPT !.packed = FALSE]
                       = [lesson_frames[n] EXCEPT !.packed = FALSE]]_vars

\* C9 witness: the first lesson is off screen with a plot and a result
C9_Witness ==
    /\ BASICS \in Tabs
    /\ ~lesson_frames[BASICS].packed
    /\ Len(lesson_frames[BASICS].plots) = 1
    /\ Len(lesson_frames[BASICS].infos) = 1
    /\ requested = SCALING

\* C10: after construction and after any sequence of show_lesson and
\* reset_all, exactly one lesson frame is packed, that of the lesson most
\* recently requested ("Vector Basics" after construction and after a
\* confirmed Reset All).
C10_OneFramePacked ==
    /\ Packed = {requested}
    /\ Cardinality(Packed) = 1
    /\ (Tabs = {BASICS} => requested = BASICS)

\* C10 witness: all four lessons have been shown, the last one is packed
C10_Witness ==
    /\ Tabs = LessonNames
    /\ requested = MAGNITUDE
    /\ lesson_frames[MAGNITUDE].packed
    /\ ~lesson_frames[BASICS].packed

\* C11: between two confirmed Reset All operations the frame and the lesson
\* object of a lesson are created at most once, on its first selection: no
\* other step removes a frame, and show_lesson builds a frame only for a
\* lesson that has none; an existing frame is only hidden or shown again, so
\* a lesson that is selected again has the entry contents, the plot and the
\* info panel it had.
C11_FramesCreatedOnce ==
    [][/\ ResetAll(TRUE) \/ Tabs \subseteq DOMAIN lesson_frames'
       /\ \A name \in LessonNames :
             ShowLesson(name) =>
                /\ DOMAIN lesson_frames' = Tabs \cup {name}
                /\ \A n \in Tabs :
                      lesson_frames'[n] =
                          [lesson_frames[n] EXCEPT !.packed = (n = name)]
                /\ name \notin Tabs =>
                      lesson_frames'[name] =
                          [NewLesson(name) EXCEPT !.packed = TRUE]]_vars

\* C11 witness: the first lesson is on screen again, with the plot and the
\* result it computed, after another lesson was selected and computed
C11_Witness ==
    /\ requested = BASICS
    /\ lesson_frames[BASICS].packed
    /\ Len(lesson_frames[BASICS].plots) = 1
    /\ Len(lesson_frames[BASICS].infos) = 1
    /\ ADDSUB \in Tabs
    /\ Len(lesson_frames[ADDSUB].plots) = 1
    /\ scroll_region = [lesson |-> BASICS, plots |-> 1, infos |-> 1]

\* C12: a declined Reset All changes no frame, no selection and no scroll
\* region; a confirmed one leaves lesson_frames with the frame of
\* "Vector Basics" alone, packed, with the entries 3, 4, 2 on the normal
\* background and with no plot and no info panel, whatever frames there were
\* before; a lesson selected when it has no frame gets a frame with its
\* initial defaults.
C12_ResetAll ==
    [][/\ ResetAll(FALSE) =>
            /\ lesson_frames' = lesson_frames
            /\ requested' = requested
            /\ scroll_region' = scroll_region
       /\ ResetAll(TRUE) =>
            /\ DOMAIN lesson_frames' = {"Vector Basics"}
            /\ lesson_frames'["Vector Basics"].packed
            /\ lesson_frames'["Vector Basics"].inputs =
                  [vector_input |-> <<NewEntry(<<"3">>), NewEntry(<<"4">>),
                                      NewEntry(<<"2">>)>>]
            /\ lesson_frames'["Vector Basics"].plots = <<>>
            /\ lesson_frames'["Vector Basics"].infos = <<>>
            /\ requested' = "Vector Basics"
            /\ scroll_region' =
                  [lesson |-> "Vector Basics", plots |-> 0, infos |-> 0]
       /\ \A name \in LessonNames \ Tabs :
            ShowLesson(name) =>
                [lesson_frames'[name] EXCEPT !.packed = FALSE] = NewLesson(name)]_vars

\* C12 witness: Reset All has just been confirmed with plots in several
\* frames: the figures of two computations are there, the only frame is a
\* new one of the first lesson
C12_Witness ==
    /\ dialog = "askyesno"
    /\ figures = 2 * FiguresCreated
    /\ Tabs = {BASICS}
    /\ lesson_frames[BASICS] = [VectorBasicsLesson EXCEPT !.packed = TRUE]
    /\ scroll_region = [lesson |-> BASICS, plots |-> 0, infos |-> 0]

\* C13: the Reset of a lesson leaves "0" in every vector entry, so that
\* get_vector gives the zero vector and not the defaults of the lesson, "1"
\* in the scalar entry of the scaling lesson, and neither plot nor info
\* panel in the frame; a second Reset changes nothing, whether or not
\* anything was plotted before; a compute pressed next shows no error and
\* leaves exactly one plot and one info panel.
C13_LessonReset ==
    [][\A name \in LessonNames :
          PressReset(name) =>
             \A tab \in {lesson_frames'[name]} :
                /\ \A input \in DOMAIN tab.inputs :
                      /\ \A i \in DOMAIN tab.inputs[input] :
                            tab.inputs[input][i].text = <<"0">>
                      /\ get_vector(tab.inputs[input]) = <<Zero, Zero, Zero>>
                /\ name = SCALING => tab.scalar_entry.text = <<"1">>
                /\ tab.plots = <<>>
                /\ tab.infos = <<>>
                /\ Reset(name, tab) = tab
                /\ \A r \in {Compute(name, tab)} :
                      /\ r.dialog = "none"
                      /\ Len(r.tab.plots) = 1
                      /\ Len(r.tab.infos) = 1]_vars

\* C13 witness: the scaling lesson has computed, has been reset and has
\* computed again: 1 * (0, 0, 0) is plotted, not the default (2, 3, 1), with
\* one info panel
C13_Witness ==
    /\ Visible(SCALING)
    /\ get_vector(lesson_frames[SCALING].inputs.vector_input)
          # get_vector(VectorScalingLesson.inputs.vector_input)
    /\ figures = 2 * FiguresCreated
    /\ lesson_frames[SCALING].scalar_entry.text = <<"1">>
    /\ \A i \in 1..3 : lesson_frames[SCALING].inputs.vector_input[i].text = <<"0">>
    /\ Len(lesson_frames[SCALING].plots) = 1
    /\ lesson_frames[SCALING].plots[1].figure.vectors[1] = <<Zero, Zero, Zero>>
    /\ Len(lesson_frames[SCALING].infos) = 1

\* C14 as stated: every call of plot_vectors from a lesson ends by invoking
\* update_main_scroll of the application: when a compute has plotted, the
\* scroll region is the one computed for the frame with its new plot.
C14_Original ==
    [][\A name \in LessonNames :
          (PressCompute(name) /\ dialog' = "none") =>
             /\ scroll_region'.lesson = name
             /\ scroll_region'.plots = Len(lesson_frames'[name].plots)]_vars

\* C15 as stated: after every key release in a vector entry, the entry has
\* the error background if and only if its content is not empty, is not "-"
\* and does not parse as a number.
C15_Original ==
    [][\A name \in LessonNames :
       \A input \in {"vector_input", "vector_a", "vector_b"} :
       \A i \in 1..3 :
       \A text \in SampleTexts :
          KeyRelease(name, input, i, text) =>
             \A entry \in {lesson_frames'[name].inputs[input][i]} :
                entry.bg = ERROR_BG <=>
                    /\ entry.text # <<>>
                    /\ entry.text # <<"-">>
                    /\ ~IsFloat(float(entry.text))]_vars

\* the plots and formulas that exist in the lesson frames: every plot
\* container shows one figure, every info panel one rendered formula
Showing(frames) ==
    LET RECURSIVE Sum(_)
        Sum(S) == IF S = {} THEN 0
                  ELSE LET n == CHOOSE x \in S : TRUE
                       IN  Len(frames[n].plots) + Len(frames[n].infos)
                               + Sum(S \ {n})
    IN  Sum(DOMAIN frames)

\* C16 as stated: every figure created for a plot or a formula is released
\* when the widget that shows it is destroyed, so the number of figures open
\* never exceeds the number of plots and formulas existing in the lesson
\* frames.
C16_Original == figures <= Showing(lesson_frames)

====
